---- MODULE Spec2Model ----
(***************************************************************************)
(* A model of the browser agent: the perceive -> decide -> act loop of     *)
(* BrowserAgent.run (browser.py) and the decision function                 *)
(* decide_next_action with its helpers (reasoning.py).                     *)
(*                                                                         *)
(* Text is a sequence of tokens.  A token is one character (a blank, a     *)
(* tab, a quote, ...) or an indivisible word ("click", "All issues",       *)
(* "action:").  No token of the alphabets below contains a separator, a    *)
(* label or white space inside itself other than as listed, so a search    *)
(* over tokens finds what the character search of the code finds.          *)
(***************************************************************************)
EXTENDS Integers, Sequences, FiniteSets, TLC

\* ------------------------------------------------------------------ bounds
MaxSteps == 3        \* steps of the loop that a run of the model follows
MaxTargetLen == 5    \* longest target given to _sanitize_fields
MaxTextLen == 4      \* longest response text given to _parse_response

\* ------------------------------------------------------------- characters
SP == " "
TAB == "\t"
NL == "\n"
SQ == "'"
DQ == "\""

\* str.strip() with no argument strips white space.
Whitespace == {SP, TAB, NL}

\* The characters of t.strip(" '\"").
QuoteChars == {SP, SQ, DQ}

\* str.lower() of one token.
LowerTok(c) ==
    CASE c = "Action:" -> "action:"
      [] c = "TARGET:" -> "target:"
      [] c = "Click" -> "click"
      [] c = "DONE" -> "done"
      [] c = "Type" -> "type"
      [] OTHER -> c

Lower(s) == [i \in 1..Len(s) |-> LowerTok(s[i])]

RECURSIVE LStrip(_, _)
LStrip(s, chars) ==
    IF s = <<>> \/ Head(s) \notin chars THEN s ELSE LStrip(Tail(s), chars)

RECURSIVE RStrip(_, _)
RStrip(s, chars) ==
    IF s = <<>> \/ s[Len(s)] \notin chars THEN s
    ELSE RStrip(SubSeq(s, 1, Len(s) - 1), chars)

\* str.strip(chars)
StripChars(s, chars) == RStrip(LStrip(s, chars), chars)

\* str.strip()
Strip(s) == StripChars(s, Whitespace)

\* str.find(sep) + 1: the first position where sep occurs in s, 0 if none.
Find(s, sep) ==
    LET hits == {i \in 1..(Len(s) - Len(sep) + 1) : SubSeq(s, i, i + Len(sep) - 1) = sep}
    IN  IF hits = {} THEN 0 ELSE CHOOSE i \in hits : \A j \in hits : i <= j

\* sep in s
Contains(s, sep) == Find(s, sep) # 0

\* s.split(sep, 1)[0]
SplitFirst(s, sep) == SubSeq(s, 1, Find(s, sep) - 1)

\* s[:n]
Prefix(s, n) == SubSeq(s, 1, IF n < Len(s) THEN n ELSE Len(s))

\* ------------------------------------------------- reasoning.py: sanitize
\* The separators of _sanitize_fields, in the order the code tries them.
Separators ==
    << <<SP, "(">>, <<SP, "-", SP>>, <<SP, "em-dash", SP>>, <<SP, "->", SP>>,
       <<SP, "r-arrow", SP>>, <<SP, "under", SP>>, <<SP, "/", SP>> >>

\* The for loop over the separators, from separator i on.
RECURSIVE CutSuffixes(_, _)
CutSuffixes(t, i) ==
    IF i > Len(Separators) THEN t
    ELSE CutSuffixes(IF Contains(t, Separators[i])
                     THEN Strip(SplitFirst(t, Separators[i]))
                     ELSE t,
                     i + 1)

\* t.strip(" '\"").strip()
StripQuotes(t) == Strip(StripChars(t, QuoteChars))

SanitizeTarget(target) == StripQuotes(CutSuffixes(Strip(target), 1))

_sanitize_fields(parsed) ==
    [parsed EXCEPT !.target = SanitizeTarget(parsed.target),
                   !.action = Lower(Strip(parsed.action))]

\* --------------------------------------------------- reasoning.py: parse
Fields == {"action", "target", "value", "reasoning"}

\* Whether the text field + ":" occurs in token c, ignoring case.  The label
\* is searched anywhere, so "reaction:" holds the label "action:".
HasLabel(c, field) ==
    \/ LowerTok(c) = "action:" /\ field = "action"
    \/ LowerTok(c) = "reaction:" /\ field = "action"
    \/ LowerTok(c) = "target:" /\ field = "target"
    \/ LowerTok(c) = "value:" /\ field = "value"
    \/ LowerTok(c) = "reasoning:" /\ field = "reasoning"

\* The position re.search finds the label at: the leftmost one, 0 if none.
LabelAt(txt, field) ==
    LET hits == {i \in 1..Len(txt) : HasLabel(txt[i], field)}
    IN  IF hits = {} THEN 0 ELSE CHOOSE i \in hits : \A j \in hits : i <= j

\* \s* : the first position from i on that holds no white space.
RECURSIVE SkipSpace(_, _)
SkipSpace(txt, i) ==
    IF i > Len(txt) \/ txt[i] \notin Whitespace THEN i ELSE SkipSpace(txt, i + 1)

\* (.*) : the last position of the run without a newline that starts at i.
RECURSIVE LineEnd(_, _)
LineEnd(txt, i) ==
    IF i > Len(txt) \/ txt[i] = NL THEN i - 1 ELSE LineEnd(txt, i + 1)

\* grab() that falls back to the whole text when the label is missing.
grabOrText(txt, field) ==
    LET at == LabelAt(txt, field)
        from == SkipSpace(txt, at + 1)
    IN  IF at = 0 THEN txt ELSE Strip(SubSeq(txt, from, LineEnd(txt, from)))

\* grab(field) of _parse_response
grab(txt, field) ==
    LET at == LabelAt(txt, field)
        from == SkipSpace(txt, at + 1)
    IN  IF at = 0 THEN <<>> ELSE Strip(SubSeq(txt, from, LineEnd(txt, from)))

_parse_response(text) ==
    LET txt == Strip(text)
    IN  [action |-> Lower(grab(txt, "action")),
         target |-> grab(txt, "target"),
         value |-> grab(txt, "value"),
         reasoning |-> grab(txt, "reasoning"),
         raw |-> txt]

\* --------------------------------------------------------------- options
\* Python's None, and a value that is set.
None == <<>>
Some(x) == <<x>>

\* ----------------------------------------------------- the oracle's texts
\* Response texts the reasoning model may return.
Responses ==
    { <<"action:", SP, "click", NL, "target:", SP, "All issues", NL,
        "value:", NL, "reasoning:", SP, "open title editor">>,
      <<"Action:", SP, "Click", NL, "TARGET:", SP, SQ, "Save", SQ, SP, "(", "button", ")", NL,
        "value:", SP, NL, "reasoning:", SP, "submit">>,
      <<"action:", SP, "click", NL, "reasoning:", SP, "something is clickable">>,
      <<"action:", SP, "type", NL, "target:", SP, "All issues", NL,
        "value:", SP, "sample-view", NL, "reasoning:", SP, "rename">>,
      <<"action:", SP, "type", NL, "value:", SP, "sample-view">>,
      <<"action:", SP, "wait", NL, "target:", SP, NL, "value:", SP, NL,
        "reasoning:", SP, "loading">>,
      <<"action:", SP, "scroll", NL, "target:", SP, "All issues">>,
      <<"I think you should click the button">>,
      <<"action:", SP, "done", NL, "target:", NL, "value:", NL,
        "reasoning:", SP, "finished">>,
      <<"Action:", SP, "DONE">> }

\* str(e) of the errors the API call may raise.
ErrorMessages ==
    { <<"Error code: ", "429", " - ", "quota exceeded">>,
      <<"Rate", " limit reached">>,
      <<"The server is ", "temporarily unavailable">>,
      <<"Connection error.">>,
      <<"Incorrect API key provided">> }

\* str(e) when response.choices[0].message.content is None.
NoContentMessage == <<"'NoneType' object has no attribute 'strip'">>

LowerMsgTok(c) == IF c = "Rate" THEN "rate" ELSE c

\* The transient-error test of _call_with_retry.
IsTransient(msg) ==
    \/ \E i \in 1..Len(msg) : msg[i] = "429"
    \/ \E i \in 1..Len(msg) : LowerMsgTok(msg[i]) = "rate"
    \/ \E i \in 1..Len(msg) : LowerMsgTok(msg[i]) = "temporarily unavailable"

max_retries == 3
base_delay == 1

\* Backoff without the doubling: every wait is base_delay.
BackoffFlat(attempt) == base_delay

\* wait = base_delay * (2 ** attempt)
Backoff(attempt) == base_delay * (2 ^ attempt)

\* The synthetic decision without the error text.
ApiErrorDecisionNoText(msg) ==
    [action |-> <<"wait">>, target |-> <<>>, value |-> <<>>,
     reasoning |-> <<"API error ", "em-dash", " waiting for next step.">>,
     raw |-> <<>>]

\* The decision decide_next_action returns when the call raised.
ApiErrorDecision(msg) ==
    [action |-> <<"wait">>, target |-> <<>>, value |-> <<>>,
     reasoning |-> <<"API error ", "em-dash", " waiting for next step.">>,
     raw |-> msg]

\* parsed = _sanitize_fields(_parse_response(raw_output))
ParsedDecision(raw_output) == _sanitize_fields(_parse_response(raw_output))

\* ------------------------------------------------------ browser.py: sites
Urls == {"https://linear.app/", "https://www.notion.so/", "https://google.com"}

\* "Choose session file based on app type"
StoragePath(url) ==
    IF url = "https://linear.app/" THEN "linear_state.json"
    ELSE IF url = "https://www.notion.so/" THEN "notion_state.json"
    ELSE "state.json"

\* ------------------------------------------- browser.py: page interaction
\* One attempted interaction with the page: the call, the index of the
\* scanned element it acts on (-1 outside the scan), whether it succeeded.
Entry(op, at, ok) == [op |-> op, at |-> at, ok |-> ok]

\* A list of locator methods tried in order, m the first that succeeds
\* (0: none does).
LocatorLog(names, m) ==
    [i \in 1..(IF m = 0 THEN Len(names) ELSE m) |-> Entry(names[i], -1, i = m)]

ClickLocators ==
    <<"get_by_text.click", "get_by_placeholder.click", "get_by_label.click">>

FillLocators ==
    <<"get_by_placeholder.fill", "get_by_label.fill",
      "fill input[name]", "fill textarea[name]">>

\* range(min(buttons.count(), 40))
ScanLimit == 40

Min(a, b) == IF a < b THEN a ELSE b

\* What a scanned element does: its label does not hold the target
\* ("miss"), reading its label raises ("unreadable"), its label holds the
\* target and the click raises ("stuck") or succeeds ("hit").
ButtonKinds == {"miss", "unreadable", "stuck", "hit"}

\* The pages the scan may meet: count elements, numbered from 0, all "miss"
\* but the two marked ones.
ButtonCounts == {0, 2, 41}
ButtonMarks == {0, 1, 39, 40}
ButtonPages ==
    { [i \in 0..(n - 1) |-> IF i = a THEN ka ELSE IF i = b THEN kb ELSE "miss"] :
        n \in ButtonCounts, a \in ButtonMarks, b \in ButtonMarks,
        ka \in ButtonKinds, kb \in ButtonKinds }

\* The scan loop from element i on, n == min(buttons.count(), 40).
RECURSIVE ScanFrom(_, _, _)
ScanFrom(buttons, i, n) ==
    IF i >= n THEN <<>>
    ELSE IF buttons[i] = "hit" THEN <<Entry("button.click", i, TRUE)>>
    ELSE IF buttons[i] = "stuck"
         THEN <<Entry("button.click", i, FALSE)>> \o ScanFrom(buttons, i + 1, n)
    ELSE ScanFrom(buttons, i + 1, n)

\* The scan without the limit of 40 elements.
ScanLogNoLimit(buttons) == ScanFrom(buttons, 0, Cardinality(DOMAIN buttons))

ScanLog(buttons) ==
    ScanFrom(buttons, 0, Min(Cardinality(DOMAIN buttons), ScanLimit))

\* Whether the last interaction of a log succeeded.
LastOk(l) == l # <<>> /\ l[Len(l)].ok

\* The runs of the click branch: the interactions made, whether an element
\* was found, whether buttons.count() raised to the outer handler.
ClickRuns ==
    { [log |-> LocatorLog(ClickLocators, m), found |-> TRUE, raised |-> FALSE] :
        m \in 1..Len(ClickLocators) }
    \cup
    { [log |-> LocatorLog(ClickLocators, 0) \o ScanLog(b),
       found |-> LastOk(ScanLog(b)), raised |-> FALSE] : b \in ButtonPages }
    \cup
    { [log |-> LocatorLog(ClickLocators, 0), found |-> FALSE, raised |-> TRUE] }

\* The runs of the contenteditable block: click, Meta+A (Control+A when it
\* raises), keyboard.type.
EditableRuns ==
    LET click(ok) == Entry("editable.click", -1, ok)
        meta(ok) == Entry("press Meta+A", -1, ok)
        ctrl(ok) == Entry("press Control+A", -1, ok)
        typed(ok) == Entry("keyboard.type", -1, ok)
    IN  { <<click(FALSE)>>,
          <<click(TRUE), meta(FALSE), ctrl(FALSE)>> }
        \cup { <<click(TRUE), meta(TRUE), typed(ok)>> : ok \in BOOLEAN }
        \cup { <<click(TRUE), meta(FALSE), ctrl(TRUE), typed(ok)>> : ok \in BOOLEAN }

\* The runs of the fallback that clicks the text of the target.
NearRuns ==
    { <<Entry("near.click", -1, FALSE)>>,
      <<Entry("near.click", -1, TRUE), Entry("keyboard.type", -1, FALSE)>>,
      <<Entry("near.click", -1, TRUE), Entry("keyboard.type", -1, TRUE)>> }

\* The type branch with the fallback on the text of the target tried for an
\* empty target too.
TypeRunsNearAlways(target) ==
    { [log |-> LocatorLog(FillLocators, m), filled |-> TRUE] :
        m \in 1..Len(FillLocators) }
    \cup
    { [log |-> LocatorLog(FillLocators, 0) \o e, filled |-> TRUE] :
        e \in {r \in EditableRuns : LastOk(r)} }
    \cup
    { [log |-> LocatorLog(FillLocators, 0) \o e \o n, filled |-> LastOk(n)] :
        e \in {r \in EditableRuns : ~LastOk(r)}, n \in NearRuns }

\* The runs of the type branch for a target.
TypeRuns(target) ==
    { [log |-> LocatorLog(FillLocators, m), filled |-> TRUE] :
        m \in 1..Len(FillLocators) }
    \cup
    { [log |-> LocatorLog(FillLocators, 0) \o e, filled |-> TRUE] :
        e \in {r \in EditableRuns : LastOk(r)} }
    \cup
    { [log |-> LocatorLog(FillLocators, 0) \o e, filled |-> FALSE] :
        e \in {r \in EditableRuns : target = <<>> /\ ~LastOk(r)} }
    \cup
    { [log |-> LocatorLog(FillLocators, 0) \o e \o n, filled |-> LastOk(n)] :
        e \in {r \in EditableRuns : target # <<>> /\ ~LastOk(r)}, n \in NearRuns }

\* The dispatch without the check for "done": the step waits and goes on.
BranchWithoutDone(decision) ==
    LET action == Lower(decision.action)
        target == Strip(decision.target)
    IN  IF action = <<"click">> /\ target # <<>> THEN "click"
        ELSE IF action = <<"type">> THEN "type"
        ELSE "wait"

\* The dispatch whose click branch does not ask for a target.
BranchClickAnyTarget(decision) ==
    LET action == Lower(decision.action)
    IN  IF action = <<"done">> THEN "done"
        ELSE IF action = <<"click">> THEN "click"
        ELSE IF action = <<"type">> THEN "type"
        ELSE "wait"

\* The dispatch that also stops on an empty action.
BranchEmptyIsDone(decision) ==
    LET action == Lower(decision.action)
        target == Strip(decision.target)
    IN  IF action = <<>> \/ action = <<"done">> THEN "done"
        ELSE IF action = <<"click">> /\ target # <<>> THEN "click"
        ELSE IF action = <<"type">> THEN "type"
        ELSE "wait"

\* The branch of the step the loop takes for a decision.
Branch(decision) ==
    LET action == Lower(decision.action)
        target == Strip(decision.target)
    IN  IF action = <<"done">> THEN "done"
        ELSE IF action = <<"click">> /\ target # <<>> THEN "click"
        ELSE IF action = <<"type">> THEN "type"
        ELSE "wait"

\* ------------------------------------------------------------------ state
VARIABLES
    pc,            \* where BrowserAgent.run stands
    app_url,       \* self.app_url
    step,          \* step
    last_action,   \* last_action: None or Some("click")
    last_target,   \* last_target: None or Some(target)
    dom_text,      \* the text given to reasoning_func in this step
    outcomes,      \* the attempts of the API call made in this step
    sleeps,        \* the backoff waits slept in this step
    result,        \* the decision reasoning_func returned in this step
    log,           \* the interactions with the page made in this step
    outcome,       \* how the last finished step ended
    saved,         \* the session files written by context.storage_state
    capture,       \* how the observation of this step went
    shots,         \* the screenshot files written, in order
    decisions,     \* the number of decisions reasoning_func has returned
    hpc,           \* where the run of the text functions stands
    inp,           \* the text given to the text functions
    parsed,        \* the dict given to _sanitize_fields
    clean          \* the dict _sanitize_fields returned

loopVars ==
    <<pc, app_url, step, last_action, last_target, dom_text, outcomes, sleeps,
      result, log, outcome, saved, capture, shots, decisions>>
textVars == <<hpc, inp, parsed, clean>>
vars == <<loopVars, textVars>>

EmptyDecision ==
    [action |-> <<>>, target |-> <<>>, value |-> <<>>, reasoning |-> <<>>, raw |-> <<>>]

\* A screenshot name that does not hold the step index.
ShotNameFixed(n) == 0

\* img_path = os.path.join(self.screenshot_dir, f"step_{step}.png")
ShotName(n) == n

\* dom_text before the first observation.
NoText == [body |-> 0, hint |-> None]

\* page.inner_text("body")[:8000]
BodyLimit == 8000

\* Lengths of the visible text of the pages a run may meet.
PageLengths == {120, 9000}

TextIdle ==
    /\ hpc = "off"
    /\ inp = <<>>
    /\ parsed = EmptyDecision
    /\ clean = EmptyDecision

LoopIdle ==
    /\ pc = "off"
    /\ app_url = "https://google.com"
    /\ step = 0
    /\ last_action = None
    /\ last_target = None
    /\ dom_text = NoText
    /\ outcomes = <<>>
    /\ sleeps = <<>>
    /\ result = EmptyDecision
    /\ log = <<>>
    /\ outcome = "none"
    /\ saved = {}
    /\ capture = "none"
    /\ shots = <<>>
    /\ decisions = 0

\* run() up to the loop: the page is open at app_url, step = 0 and the loop
\* memory is (None, None).  main.py picks one of three urls.
Init ==
    /\ pc = "observe"
    /\ app_url \in Urls
    /\ step = 0
    /\ last_action = None
    /\ last_target = None
    /\ dom_text = NoText
    /\ outcomes = <<>>
    /\ sleeps = <<>>
    /\ result = EmptyDecision
    /\ log = <<>>
    /\ outcome = "none"
    /\ saved = {}
    /\ capture = "none"
    /\ shots = <<>>
    /\ decisions = 0
    /\ TextIdle

\* The feedback tested against the wrong action: it is never given.
HintAfterType(action, target) ==
    IF action = Some("type") /\ target # None /\ target # Some(<<>>)
    THEN target ELSE None

\* The feedback for a previous click: the target the note names, if any.
Hint(action, target) ==
    IF action = Some("click") /\ target # None /\ target # Some(<<>>)
    THEN target ELSE None

\* The number of characters of a token: the dashes and arrows that are
\* written by name are one character each.
CharLen(c) == IF c \in {"em-dash", "r-arrow"} THEN 1 ELSE Len(c)

\* len() of a text.
RECURSIVE TextLen(_)
TextLen(s) == IF s = <<>> THEN 0 ELSE CharLen(Head(s)) + TextLen(Tail(s))

\* The characters of the note before and after the target it names.
NoteHead == 9
NoteTail == 67

\* len() of the note for a previous click, 0 when there is none.
HintLen(hint) ==
    IF hint = None THEN 0 ELSE NoteHead + TextLen(hint[1]) + NoteTail

\* (dom_text or "")[:6000] of decide_next_action: the characters of the body
\* and of the note that the prompt keeps.
ExcerptLimit == 6000

dom_excerpt(dom) ==
    LET kept == Min(dom.body + HintLen(dom.hint), ExcerptLimit)
        body == Min(dom.body, ExcerptLimit)
    IN  [body |-> body, hint |-> kept - body]

\* Top of the loop: the screenshot step_{step}.png, the body text cut to
\* 8000 characters ("" when inner_text raises) and the note for a previous
\* click.
Observe ==
    /\ pc = "observe"
    /\ step < MaxSteps
    /\ shots' = Append(shots, ShotName(step))
    /\ \E read \in BOOLEAN, body \in PageLengths :
          /\ capture' = IF read THEN "ok" ELSE "no_text"
          /\ dom_text' = [body |-> IF read THEN Min(body, BodyLimit) ELSE 0,
                          hint |-> Hint(last_action, last_target)]
    /\ pc' = "decide"
    /\ outcomes' = <<>>
    /\ sleeps' = <<>>
    /\ result' = EmptyDecision
    /\ log' = <<>>
    /\ UNCHANGED <<app_url, step, last_action, last_target, outcome, saved, decisions,
                   textVars>>

\* page.screenshot raises: nothing in run() handles it, the exception leaves
\* run() past the session save.
ScreenshotRaises ==
    /\ pc = "observe"
    /\ step < MaxSteps
    /\ pc' = "crashed"
    /\ capture' = "no_shot"
    /\ UNCHANGED <<app_url, step, last_action, last_target, dom_text, outcomes,
                   sleeps, result, log, outcome, saved, textVars,
                   shots, decisions>>

\* One create_fn() of _call_with_retry that returns a response with text.
CallReturns ==
    /\ pc = "decide"
    /\ Len(outcomes) <= max_retries
    /\ \E text \in Responses : result' = ParsedDecision(Strip(text))
    /\ outcomes' = Append(outcomes, "ok")
    /\ pc' = "dispatch"
    /\ decisions' = decisions + 1
    /\ UNCHANGED <<app_url, step, last_action, last_target, dom_text, sleeps, log,
                   outcome, saved, textVars,
                   capture, shots>>

\* One create_fn() that returns a response whose content is None: .strip()
\* raises inside the try of decide_next_action.
CallReturnsNoContent ==
    /\ pc = "decide"
    /\ Len(outcomes) <= max_retries
    /\ result' = ApiErrorDecision(NoContentMessage)
    /\ outcomes' = Append(outcomes, "ok")
    /\ pc' = "dispatch"
    /\ decisions' = decisions + 1
    /\ UNCHANGED <<app_url, step, last_action, last_target, dom_text, sleeps, log,
                   outcome, saved, textVars,
                   capture, shots>>

\* One create_fn() that raises inside the for loop with a transient
\* signature: sleep and try again.
CallRetries ==
    /\ pc = "decide"
    /\ Len(outcomes) < max_retries
    /\ \E msg \in ErrorMessages : IsTransient(msg)
    /\ outcomes' = Append(outcomes, "transient")
    /\ sleeps' = Append(sleeps, Backoff(Len(outcomes)))
    /\ UNCHANGED <<pc, app_url, step, last_action, last_target, dom_text, result, log,
                   outcome, saved, textVars,
                   capture, shots, decisions>>

\* One create_fn() that raises out of _call_with_retry: any other error
\* inside the for loop, any error of the call after the loop.
\* decide_next_action returns the synthetic decision.
CallFails ==
    /\ pc = "decide"
    /\ Len(outcomes) <= max_retries
    /\ \E msg \in ErrorMessages :
          /\ Len(outcomes) < max_retries => ~IsTransient(msg)
          /\ result' = ApiErrorDecision(msg)
          /\ outcomes' = Append(outcomes, IF IsTransient(msg) THEN "transient" ELSE "other")
    /\ pc' = "dispatch"
    /\ decisions' = decisions + 1
    /\ UNCHANGED <<app_url, step, last_action, last_target, dom_text, sleeps, log,
                   outcome, saved, textVars,
                   capture, shots>>

\* The click branch recording the click whether or not an element was found.
MemoryAfterClickAlways(found, target, memory) == <<Some("click"), Some(target)>>

\* The loop memory <<last_action, last_target>> after the click branch:
\* set when an element was found, left alone otherwise.
MemoryAfterClick(found, target, memory) ==
    IF found THEN <<Some("click"), Some(target)>> ELSE memory

\* The loop memory after the type branch: cleared when the value was
\* filled, left alone otherwise.
MemoryAfterType(filled, memory) ==
    IF filled THEN <<None, None>> ELSE memory

\* step += 1; time.sleep(1.5)
Advance ==
    /\ step' = step + 1
    /\ pc' = "observe"

\* action == "done": break
StepDone ==
    /\ pc = "dispatch"
    /\ Branch(result) = "done"
    /\ outcome' = "done"
    /\ pc' = "save"
    /\ UNCHANGED <<app_url, step, last_action, last_target, dom_text, outcomes,
                   sleeps, result, log, saved, textVars,
                   capture, shots, decisions>>

\* action == "click" and target
StepClick ==
    /\ pc = "dispatch"
    /\ Branch(result) = "click"
    /\ \E run \in ClickRuns :
          /\ log' = run.log
          /\ outcome' = IF run.raised THEN "error"
                        ELSE IF run.found THEN "click_ok" ELSE "click_fail"
          /\ LET memory == MemoryAfterClick(run.found, Strip(result.target),
                                             <<last_action, last_target>>)
             IN  /\ last_action' = memory[1]
                 /\ last_target' = memory[2]
    /\ Advance
    /\ UNCHANGED <<app_url, dom_text, outcomes, sleeps, result, saved, textVars,
                   capture, shots, decisions>>

\* action == "type"
StepType ==
    /\ pc = "dispatch"
    /\ Branch(result) = "type"
    /\ \E run \in TypeRuns(Strip(result.target)) :
          /\ log' = run.log
          /\ outcome' = IF run.filled THEN "type_ok" ELSE "type_fail"
          /\ LET memory == MemoryAfterType(run.filled, <<last_action, last_target>>)
             IN  /\ last_action' = memory[1]
                 /\ last_target' = memory[2]
    /\ Advance
    /\ UNCHANGED <<app_url, dom_text, outcomes, sleeps, result, saved, textVars,
                   capture, shots, decisions>>

\* "WAIT or undefined": time.sleep(2)
StepWait ==
    /\ pc = "dispatch"
    /\ Branch(result) = "wait"
    /\ outcome' = "wait"
    /\ Advance
    /\ UNCHANGED <<app_url, last_action, last_target, dom_text, outcomes, sleeps,
                   result, log, saved, textVars,
                   capture, shots, decisions>>

\* After the loop: context.storage_state(path=storage_path); browser.close()
SaveSession ==
    /\ pc = "save"
    /\ saved' = saved \cup {StoragePath(app_url)}
    /\ pc' = "returned"
    /\ UNCHANGED <<app_url, step, last_action, last_target, dom_text, outcomes,
                   sleeps, result, log, outcome, textVars,
                   capture, shots, decisions>>

Next ==
    \/ Observe
    \/ ScreenshotRaises
    \/ CallReturns
    \/ CallReturnsNoContent
    \/ CallRetries
    \/ CallFails
    \/ StepDone
    \/ StepClick
    \/ StepType
    \/ StepWait
    \/ SaveSession

Spec == Init /\ [][Next]_vars

\* The loop is sequential code: a step that can run does run.
FairSpec == Spec /\ WF_vars(StepDone) /\ WF_vars(SaveSession)

\* ------------------------------------------- the text functions on their own
\* All texts of at most n tokens of alphabet A.
Strings(A, n) == UNION {[1..k -> A] : k \in 0..n}

\* The characters of the targets given to _sanitize_fields.
TargetChars == {"a", SP, TAB, SQ, "(", "-"}

\* The targets _parse_response hands to _sanitize_fields: grab() strips them.
ParsedTargets == {t \in Strings(TargetChars, MaxTargetLen) : Strip(t) = t}

\* The tokens of the response texts given to _parse_response.
TextChars ==
    {"action:", "target:", "value:", "reasoning:", "reaction:", SP, NL,
     "click", "type", "done"}

Texts == Strings(TextChars, MaxTextLen)

\* _sanitize_fields applied to a parsed dict, and applied again to what it
\* returned.
InitSanitize ==
    /\ LoopIdle
    /\ hpc = "dict"
    /\ inp \in ParsedTargets
    /\ parsed = [EmptyDecision EXCEPT !.target = inp]
    /\ clean = EmptyDecision

SanitizeOnce ==
    /\ hpc = "dict"
    /\ clean' = _sanitize_fields(parsed)
    /\ hpc' = "once"
    /\ UNCHANGED <<loopVars, inp, parsed>>

SanitizeAgain ==
    /\ hpc = "once"
    /\ parsed' = clean
    /\ clean' = _sanitize_fields(clean)
    /\ hpc' = "twice"
    /\ UNCHANGED <<loopVars, inp>>

NextSanitize == SanitizeOnce \/ SanitizeAgain

SpecSanitize == InitSanitize /\ [][NextSanitize]_vars

\* One step of the loop whose API call returned the text inp: the tail of
\* decide_next_action (parse, sanitize, return) and the dispatch of the loop.
InitParse ==
    /\ pc = "decide"
    /\ app_url = "https://google.com"
    /\ step = 0
    /\ last_action = None
    /\ last_target = None
    /\ dom_text = NoText
    /\ outcomes = <<"ok">>
    /\ sleeps = <<>>
    /\ result = EmptyDecision
    /\ log = <<>>
    /\ outcome = "none"
    /\ saved = {}
    /\ capture = "ok"
    /\ shots = <<ShotName(0)>>
    /\ decisions = 0
    /\ hpc = "text"
    /\ inp \in Texts
    /\ parsed = EmptyDecision
    /\ clean = EmptyDecision

\* raw_output = content.strip(); parsed = _parse_response(raw_output)
ParseText ==
    /\ hpc = "text"
    /\ parsed' = _parse_response(Strip(inp))
    /\ hpc' = "parsed"
    /\ UNCHANGED <<loopVars, inp, clean>>

\* parsed = _sanitize_fields(parsed)
SanitizeParsed ==
    /\ hpc = "parsed"
    /\ clean' = _sanitize_fields(parsed)
    /\ hpc' = "clean"
    /\ UNCHANGED <<loopVars, inp, parsed>>

\* return parsed: result = reasoning_func(dom_text, goal, img_path)
ReturnParsed ==
    /\ hpc = "clean"
    /\ pc = "decide"
    /\ result' = clean
    /\ pc' = "dispatch"
    /\ hpc' = "returned"
    /\ decisions' = decisions + 1
    /\ UNCHANGED <<app_url, step, last_action, last_target, dom_text, outcomes,
                   sleeps, log, outcome, saved, inp, parsed, clean,
                   capture, shots>>

NextParse ==
    \/ ParseText
    \/ SanitizeParsed
    \/ ReturnParsed
    \/ StepDone
    \/ StepClick
    \/ StepType
    \/ StepWait
    \/ SaveSession

SpecParse == InitParse /\ [][NextParse]_vars

\* ================================================================= claims
Vocabulary == {<<"click">>, <<"type">>, <<"wait">>, <<"done">>}

\* Every attempt of the API call of this step failed with a transient
\* signature, and decide_next_action is over.
AllTransient ==
    /\ pc # "decide"
    /\ outcomes # <<>>
    /\ \A i \in 1..Len(outcomes) : outcomes[i] = "transient"

StrictlyIncreasing(q) == \A i \in 1..Len(q) : \A j \in 1..Len(q) : i < j => q[i] < q[j]

C2_SavedOnEveryExit ==
    pc \in {"returned", "crashed"} => StoragePath(app_url) \in saved

\* C3, as claimed: after a step that took the type branch, filled or not,
\* the loop memory is (None, None).
C3_TypeClearsMemory ==
    outcome \in {"type_ok", "type_fail"} =>
        last_action = None /\ last_target = None

\* A step of the click branch in which no interaction succeeded: the three
\* locators failed and the scan clicked nothing (or could not count).
ClickStepFails ==
    /\ pc = "dispatch"
    /\ Lower(result.action) = <<"click">>
    /\ Strip(result.target) # <<>>
    /\ \A i \in 1..Len(log') : ~log'[i].ok

\* C4: when a click with a non-empty target fails in the three locators and
\* in the scan, the step ends without an exception, the loop memory keeps
\* the values it had before the step, and the step counter goes up by one.
C4_ClickFailureKeepsMemory ==
    [][ClickStepFails =>
          /\ last_action' = last_action
          /\ last_target' = last_target
          /\ step' = step + 1
          /\ pc' = "observe"
          /\ Len(log') >= Len(ClickLocators)]_vars

C4_Witness ==
    /\ pc = "observe"
    /\ outcome = "click_fail"
    /\ last_action = Some("click")
    /\ last_target = Some(<<"Save">>)
    /\ result.target = <<"All issues">>
    /\ Len(log) = 5
    /\ step = 2

\* C5: after a step whose click on the non-empty target T succeeded, the
\* loop memory names T, and the text observed in the next step carries the
\* note naming T.
C5_ClickHintInNextObservation ==
    /\ (pc = "observe" /\ outcome = "click_ok") =>
          /\ Strip(result.target) # <<>>
          /\ last_target = Some(Strip(result.target))
    /\ (pc = "decide" /\ outcome = "click_ok") =>
          /\ last_target # None
          /\ dom_text.hint = last_target

C5_Witness ==
    /\ pc = "decide"
    /\ outcome = "click_ok"
    /\ dom_text.hint = Some(<<"Save">>)
    /\ step = 1

\* C6, as claimed: an observation carries the note of a click only when the
\* step right before it was a successful click.
C6_HintOnlyRightAfterClick ==
    (pc = "decide" /\ dom_text.hint # None) => outcome = "click_ok"

\* C7: a decision with action "done" stops the loop in its step without
\* any interaction with the page (the step counter does not move, the loop
\* does not go on to another observation), and the session state is written
\* before run() returns.
C7_DoneStopsAndSaves ==
    /\ Lower(result.action) = <<"done">> =>
          /\ pc \in {"dispatch", "save", "returned"}
          /\ log = <<>>
    /\ pc \in {"save", "returned"} =>
          /\ Lower(result.action) = <<"done">>
          /\ outcome = "done"
    /\ pc = "returned" => StoragePath(app_url) \in saved

C7_Witness ==
    /\ pc = "returned"
    /\ step = 1
    /\ result.action = <<"done">>
    /\ saved = {"linear_state.json"}

\* A decision the loop has no branch for: an action outside the vocabulary
\* (the empty action too), or a click without a target.
NoBranchDecision ==
    \/ Lower(result.action) \notin Vocabulary
    \/ Lower(result.action) = <<"click">> /\ Strip(result.target) = <<>>

\* C8: a step whose decision has an action outside {click, type, wait, done}
\* or is a click with an empty target makes no interaction with the page,
\* leaves the loop memory unchanged and advances the loop to the next step.
C8_UnknownActionIsWait ==
    [][(pc = "dispatch" /\ NoBranchDecision) =>
          /\ log' = <<>>
          /\ last_action' = last_action
          /\ last_target' = last_target
          /\ step' = step + 1
          /\ pc' = "observe"]_vars

C8_Witness ==
    /\ pc = "observe"
    /\ outcome = "wait"
    /\ result.action = <<"scroll">>
    /\ log = <<>>
    /\ last_action = Some("click")
    /\ step = 2

\* C9, as claimed: _sanitize_fields applied to its own output yields the
\* target one application yields.  (parsed holds the output of the first
\* application, clean the output of the second.)
C9_SanitizeIdempotent ==
    hpc = "twice" => clean.target = parsed.target

\* The response text holds no label of the field.
Missing(field) == LabelAt(Strip(inp), field) = 0

\* C10: for a response text that lacks labels, _parse_response returns the
\* empty string for each field whose label is missing; a response with none
\* of the labels is returned to the loop as a decision with empty action,
\* target, value and reasoning, which the loop runs as a wait (no
\* interaction, no exit, no exception) and then advances to the next step.
C10_MissingLabelsParseEmpty ==
    /\ hpc # "text" => \A f \in Fields : Missing(f) => parsed[f] = <<>>
    /\ (hpc = "returned" /\ \A f \in Fields : Missing(f)) =>
          /\ \A f \in Fields : result[f] = <<>>
          /\ pc \in {"dispatch", "observe"}
          /\ pc = "observe" =>
                /\ outcome = "wait"
                /\ log = <<>>
                /\ step = 1

C10_Witness ==
    /\ hpc = "returned"
    /\ inp = <<"click", SP, "done">>
    /\ pc = "observe"
    /\ outcome = "wait"
    /\ step = 1

\* The last attempt of the API call of this step failed with an error that
\* has no transient signature.
FailedForGood == outcomes # <<>> /\ outcomes[Len(outcomes)] = "other"

\* C11: an error of the oracle call without a transient signature is not
\* retried: it is the last attempt of the call (the only one when it is the
\* first), no backoff sleep follows it, decide_next_action returns the
\* synthetic decision with action "wait", empty target and value and the
\* error text in its raw field, and the loop runs the step as a wait and
\* goes on to the next step.
C11_OtherErrorNotRetried ==
    /\ \A i \in 1..(Len(outcomes) - 1) : outcomes[i] = "transient"
    /\ FailedForGood =>
          /\ pc \in {"dispatch", "observe", "crashed"}
          /\ Len(sleeps) = Len(outcomes) - 1
          /\ (outcomes[1] = "other" => Len(outcomes) = 1 /\ sleeps = <<>>)
          /\ result.action = <<"wait">>
          /\ result.target = <<>>
          /\ result.value = <<>>
          /\ result.raw \in ErrorMessages
          /\ ~IsTransient(result.raw)
          /\ pc # "dispatch" => outcome = "wait" /\ log = <<>> /\ step >= 1

C11_Witness ==
    /\ pc = "observe"
    /\ outcomes = <<"other">>
    /\ sleeps = <<>>
    /\ result.raw = <<"Connection error.">>
    /\ outcome = "wait"
    /\ step = 1

\* C12, as claimed: a failure while capturing the observation of a step does
\* not end the loop: when the screenshot or the text extraction fails, the
\* step goes on with an empty text and the oracle is called.
C12_CaptureFailureNotFatal ==
    capture \in {"no_text", "no_shot"} =>
        /\ pc # "crashed"
        /\ pc = "decide" => dom_text.body = 0

\* C13: the loop exits normally exactly at the first step whose decision is
\* "done": run() is past the loop only with a "done" decision, a step with
\* any other decision goes on to the next step whatever the step index is
\* (there is no turn cap), and a "done" decision is followed by the return
\* of run().
C13_ExitOnlyOnDone ==
    /\ [](pc \in {"save", "returned"} => Lower(result.action) = <<"done">>)
    /\ [][(pc = "dispatch" /\ Lower(result.action) # <<"done">>) =>
             (pc' = "observe" /\ step' = step + 1)]_vars
    /\ [][(pc = "dispatch" /\ Lower(result.action) = <<"done">>) =>
             (pc' = "save" /\ step' = step)]_vars
    /\ (pc = "dispatch" /\ Lower(result.action) = <<"done">>) ~> (pc = "returned")

C13_Witness ==
    /\ pc = "returned"
    /\ step = MaxSteps - 1
    /\ decisions = MaxSteps
    /\ outcome = "done"

\* The interactions that begin a resolution strategy.
StrategyHeads ==
    {ClickLocators[i] : i \in 1..Len(ClickLocators)}
    \cup {FillLocators[i] : i \in 1..Len(FillLocators)}
    \cup {"button.click", "editable.click", "near.click"}

\* Where the last strategy tried in a log begins.
LastStrategyStart(l) ==
    LET heads == {i \in 1..Len(l) : l[i].op \in StrategyHeads}
    IN  IF heads = {} THEN 0 ELSE CHOOSE i \in heads : \A j \in heads : j <= i

\* C14, as claimed: a strategy that fails leaves the page as it was: the
\* only interactions of a step that take effect on the page are those of
\* the strategy that succeeded, the last one tried.
C14_FailedStrategyLeavesPage ==
    \A i \in 1..Len(log) :
        log[i].ok => (LastOk(log) /\ i >= LastStrategyStart(log))

\* The step that has just ended took the click branch.
ClickStepEnded ==
    /\ pc \notin {"decide", "dispatch"}
    /\ Lower(result.action) = <<"click">>
    /\ Strip(result.target) # <<>>

\* C15: a click with a non-empty target tries the text, placeholder and
\* label locators in this order and then scans the elements of index below
\* 40 in rising order; nothing is tried after the first success, so at most
\* one click of the step succeeds, the scan runs only after the three
\* locators failed, and no element of index 40 or more is clicked.
C15_ClickStrategyOrder ==
    ClickStepEnded =>
        /\ Len(log) >= 1
        /\ \A i \in 1..Len(log) :
              /\ i <= Len(ClickLocators) =>
                    log[i].op = ClickLocators[i] /\ log[i].at = -1
              /\ i > Len(ClickLocators) =>
                    /\ log[i].op = "button.click"
                    /\ log[i].at >= 0
                    /\ log[i].at < ScanLimit
                    /\ i > Len(ClickLocators) + 1 => log[i - 1].at < log[i].at
              /\ i < Len(log) => ~log[i].ok
        /\ outcome = "click_ok" <=> LastOk(log)
        /\ outcome \in {"click_ok", "click_fail", "error"}

C15_Witness ==
    /\ ClickStepEnded
    /\ outcome = "click_ok"
    /\ Len(log) = 5
    /\ log[4].at = 0
    /\ ~log[4].ok
    /\ log[5].at = 39
    /\ log[5].ok

\* The step that has just ended took the type branch.
TypeStepEnded ==
    /\ pc \notin {"decide", "dispatch"}
    /\ Lower(result.action) = <<"type">>

\* The interactions that put the value into the page.
ValueEntries ==
    {FillLocators[i] : i \in 1..Len(FillLocators)} \cup {"keyboard.type"}

\* C16: a type step tries the four fills in the order placeholder, label,
\* input[name], textarea[name], then the contenteditable element (click,
\* select all, type), then the click on the text of the target followed by
\* typing; nothing is tried after the first success, the value is entered at
\* most once, the last fallback runs only for a non-empty target, and a
\* successful step leaves the memory (None, None).
C16_TypeStrategyOrder ==
    TypeStepEnded =>
        LET n == Len(log)
            nf == Len(FillLocators)
            entered == {i \in 1..n : log[i].op \in ValueEntries /\ log[i].ok}
            near == {i \in 1..n : log[i].op = "near.click"}
            editable == {i \in 1..n : log[i].op = "editable.click"}
        IN  /\ n >= 1
            /\ \A i \in 1..n :
                  /\ i <= nf => log[i].op = FillLocators[i]
                  /\ i > nf => log[i].op \notin
                                   {FillLocators[j] : j \in 1..nf}
                  /\ (i < n /\ i <= nf) => ~log[i].ok
            /\ editable \subseteq {nf + 1}
            /\ n > nf => editable = {nf + 1}
            /\ Cardinality(near) <= 1
            /\ \A i \in near :
                  /\ i > nf + 1
                  /\ Strip(result.target) # <<>>
                  /\ \A j \in 1..(i - 1) : j \notin entered
                  /\ \A j \in (nf + 2)..(i - 1) :
                        log[j].op \in {"press Meta+A", "press Control+A",
                                       "keyboard.type"}
                  /\ \A j \in (i + 1)..n : log[j].op = "keyboard.type"
                  /\ log[i].ok <=> i < n
            /\ Cardinality(entered) <= 1
            /\ entered \subseteq {n}
            /\ outcome = "type_ok" <=> entered = {n}
            /\ outcome \in {"type_ok", "type_fail"}
            /\ outcome = "type_ok" => last_action = None /\ last_target = None

C16_Witness ==
    /\ TypeStepEnded
    /\ outcome = "type_ok"
    /\ dom_text.hint # None
    /\ last_action = None
    /\ last_target = None
    /\ \E i \in 1..Len(log) : log[i].op = "near.click" /\ log[i].ok
    /\ log[Len(log)].op = "keyboard.type"
    /\ log[Len(log)].ok

\* The text before the earliest occurrence of any separator in t, t itself
\* when it holds none.
BeforeEarliestSeparator(t) ==
    LET hits == {Find(t, Separators[i]) : i \in 1..Len(Separators)} \ {0}
    IN  IF hits = {} THEN t
        ELSE SubSeq(t, 1, (CHOOSE i \in hits : \A j \in hits : i <= j) - 1)

\* C17: the sanitized target is the text before the earliest separator of
\* the trimmed input, with surrounding quotes and white space stripped, also
\* when two separators share a space, and it holds no separator.
C17_CutAtEarliestSeparator ==
    hpc = "once" =>
        /\ clean.target = StripQuotes(Strip(BeforeEarliestSeparator(Strip(inp))))
        /\ \A i \in 1..Len(Separators) : ~Contains(clean.target, Separators[i])

\* The positions of txt where a line starts with the label of the field:
\* the token is the label itself and begins the text or follows a newline.
LabelLines(txt, field) ==
    {i \in 1..Len(txt) :
        /\ HasLabel(txt[i], field)
        /\ LowerTok(txt[i]) # "reaction:"
        /\ i = 1 \/ txt[i - 1] = NL}

\* The rest of the line after position i, trimmed.
RestOfLine(txt, i) == Strip(SubSeq(txt, i + 1, LineEnd(txt, i + 1)))

\* C18: each parsed field is the trimmed rest of the first line that starts
\* with its label; a labelled line with nothing after the colon gives the
\* empty string, no text of the next line; a label inside another word or
\* in the middle of a line gives no field.
C18_FieldFromItsLine ==
    hpc # "text" =>
        \A f \in Fields :
            LET txt == Strip(inp)
                lines == LabelLines(txt, f)
                first == CHOOSE i \in lines : \A j \in lines : i <= j
                rest == RestOfLine(txt, first)
            IN  /\ lines = {} => parsed[f] = <<>>
                /\ lines # {} =>
                      parsed[f] = IF f = "action" THEN Lower(rest) ELSE rest

\* C19: after a successful click on a target the excerpt of the next prompt
\* holds the note that names the target, whatever the length of the text of
\* the page.
C19_HintInExcerpt ==
    (pc = "decide" /\ outcome = "click_ok") =>
        /\ dom_text.hint = last_target
        /\ dom_text.hint # None
        /\ dom_excerpt(dom_text).hint = HintLen(dom_text.hint)

\* The observation and the decision of the current step are both taken.
Decided == pc \in {"dispatch", "save", "returned"}

\* C20: a step observes, decides, resolves and advances in this order: when
\* the step dispatches, one screenshot per step so far has been written,
\* each named by the index of its step, and one decision per step has been
\* returned; the page is not touched between the observation and the
\* dispatch; the step index changes only at the end of a step that is not
\* "done", by exactly 1, so that no two screenshots have the same name.
C20_StepPhases ==
    /\ [](/\ \A i \in 1..Len(shots) : shots[i] = i - 1
          /\ \A i \in 1..Len(shots) : \A j \in 1..Len(shots) :
                i # j => shots[i] # shots[j]
          /\ pc = "decide" => Len(shots) = step + 1 /\ decisions = step
          /\ Decided => Len(shots) = step + 1 /\ decisions = step + 1
          /\ pc \in {"observe", "crashed"} =>
                Len(shots) = step /\ decisions = step
          /\ pc \in {"decide", "dispatch"} => log = <<>>)
    /\ [][log' # log => (pc = "dispatch" /\ pc' = "observe") \/ log' = <<>>]_vars
    /\ [][step' # step =>
             /\ step' = step + 1
             /\ pc = "dispatch"
             /\ pc' = "observe"
             /\ Lower(result.action) # <<"done">>]_vars
    /\ [][(pc = "dispatch" /\ Lower(result.action) # <<"done">>) =>
             step' = step + 1]_vars

C20_Witness ==
    /\ pc = "observe"
    /\ step = 2
    /\ shots = <<0, 1>>
    /\ decisions = 2
    /\ log # <<>>

====
